---- MODULE Spec2Model ----
(***************************************************************************)
(* redox::Buffer<ValueType, Allocator, GrowthPolicy> (core/buffer.h): a    *)
(* move-only growable array over raw storage obtained from an allocator.   *)
(* The model keeps the heap of storage regions with the content of every   *)
(* slot, the three fields of every Buffer object, and the sequence of      *)
(* allocator / constructor / destructor calls made by the last operation.  *)
(***************************************************************************)
EXTENDS Integers, Sequences, FiniteSets, TLC

\* ---- bounds of the model ----
MaxCap == 2        \* largest slot count requested from the allocator
MaxOps == 3        \* operations performed during one run
MaxPushes == 5     \* insertions performed during one run of the doubling policy
MaxWidth == 2      \* largest sizeof(ValueType) of the element types tried
MaxMoves == 5      \* operations performed during one run of the ownership program

\* ---- encoding of pointers and slot contents ----
Null == 0          \* nullptr
DefaultValue == 0  \* the value of ValueType()
Uninit == 0 - 1    \* a slot holding no object
Garbage == 0 - 2   \* an object whose bytes are indeterminate
MovedFrom == 0 - 3 \* a live object that has been moved from

Bufs == {1, 2}
Values == {1, 2}
Widths == {1}
Policies == {"arbitrary"}
Outcomes == {"ok", "throw", "null"}

VARIABLES
    bufs,     \* the Buffer objects: lifetime state and _data, _reserved, _size
    heap,     \* the regions handed out by Allocator::allocate, in order
    policy,   \* the GrowthPolicy the program instantiates Buffer with
    width,    \* sizeof(ValueType)
    last,     \* the last operation: name, object, argument, how it ended
    trace,    \* the calls the last operation made, in order
    ub,       \* the program has executed undefined behaviour
    steps,    \* the number of operations performed so far
    pushed,   \* per object: the values inserted since Buffer(), while nothing
              \* but push/emplace has been called on it
    spare,    \* per object: the size its last clear() found, less the
              \* insertions made since, while nothing but push/emplace followed
    debug,    \* the program is built with RDX_DEBUG defined
    budget    \* the number of operations the program performs

vars == <<bufs, heap, policy, width, last, trace, ub, steps, pushed, spare, debug,
          budget>>

\* ---- small helpers ----
Max(a, b) == IF a >= b THEN a ELSE b

Ev(e, r, i, v) == [e |-> e, r |-> r, i |-> i, v |-> v]

Region(n) == [st |-> "live", cap |-> n, slots |-> [k \in 1 .. n |-> Uninit], frees |-> 0]

NoBuffer == [st |-> "none", data |-> Null, reserved |-> 0, size |-> 0]

\* A context threads the fields of *this, the heap and the call trace
\* through the statements of one member function.
Ctx(bf, h) ==
    [bf |-> bf, h |-> h, t |-> <<>>, ub |-> FALSE, ex |-> FALSE, err |-> "none",
     ret |-> Null]

Log(c, ev) == [c EXCEPT !.t = Append(@, ev)]

\* p + i designates a slot of a region that is still allocated
Valid(h, r, i) ==
    /\ r \in 1 .. Len(h)
    /\ h[r].st = "live"
    /\ i >= 0
    /\ i < h[r].cap

\* reading through an invalid pointer or from a slot without an object
\* yields indeterminate bytes
Load(h, r, i) ==
    IF Valid(h, r, i) /\ h[r].slots[i + 1] >= DefaultValue
    THEN h[r].slots[i + 1]
    ELSE Garbage

\* writing through an invalid pointer is undefined behaviour
Store(c, r, i, v) ==
    IF Valid(c.h, r, i)
    THEN [c EXCEPT !.h[r].slots[i + 1] = v]
    ELSE [c EXCEPT !.ub = TRUE]

\* new (p + i) ValueType(v)
PlacementNew(c, r, i, v, e) == Log(Store(c, r, i, v), Ev(e, r, i, v))

\* ---- the collaborators (not part of buffer.h) ----

\* GrowthPolicy()(size): the capacities a policy may answer, all above the
\* current size.  "arbitrary" stands for every policy at once; "double" is
\* the policy "double, at least 4".
GrowthPolicy(p, s) ==
    IF p = "double" THEN {Max(4, 2 * s)} ELSE {k \in 1 .. MaxCap : k > s}

\* Allocator::allocate(n): fresh storage for n slots; failure is signalled
\* by raising ("throw") or by returning nullptr ("null")
Allocate(c, n, o) ==
    IF o = "ok"
    THEN Log([c EXCEPT !.h = Append(@, Region(n)), !.ret = Len(c.h) + 1],
             Ev("allocate", Len(c.h) + 1, n, 0))
    ELSE IF o = "throw"
    THEN Log([c EXCEPT !.ex = TRUE, !.err = "AllocationFailure", !.ret = Null],
             Ev("allocate_throw", Null, n, 0))
    ELSE Log([c EXCEPT !.ret = Null], Ev("allocate", Null, n, 0))

\* Allocator::deallocate(p): releases the region; deallocate(nullptr) does nothing
Deallocate(c, r) ==
    LET c1 == Log(c, Ev("deallocate", r, 0, 0))
    IN  IF r = Null THEN c1
        ELSE IF r \in 1 .. Len(c.h) /\ c.h[r].st = "live"
        THEN [c1 EXCEPT !.h[r].st = "released", !.h[r].frees = @ + 1,
                        !.h[r].slots = [k \in 1 .. c.h[r].cap |-> Uninit]]
        ELSE IF r \in 1 .. Len(c.h)
        THEN [c1 EXCEPT !.h[r].frees = @ + 1, !.ub = TRUE]
        ELSE [c1 EXCEPT !.ub = TRUE]

\* ---- private members of Buffer ----

\* for (auto& c : *this) c.~ValueType();   over [begin(), end())
RECURSIVE DestructFrom(_, _)
DestructFrom(c, i) ==
    IF i >= c.bf.size THEN c
    ELSE LET r == c.bf.data
             was == IF Valid(c.h, r, i) THEN c.h[r].slots[i + 1] ELSE Garbage
             c1 == Log(Store(c, r, i, Uninit), Ev("destruct", r, i, was))
             c2 == IF was = Uninit THEN [c1 EXCEPT !.ub = TRUE] ELSE c1
         IN  DestructFrom(c2, i + 1)

\* std::is_trivially_destructible_v<ValueType>: the model instantiates Buffer
\* with an element type whose destructor has to run
TriviallyDestructible == FALSE

_destruct(c) == IF TriviallyDestructible THEN c ELSE DestructFrom(c, 0)

_dealloc(c) == Deallocate(c, c.bf.data)

\* new (dest + elm) ValueType(std::move(_data[elm]));   for elm in [0, _size)
RECURSIVE MoveFrom(_, _, _)
MoveFrom(c, dest, elm) ==
    IF elm >= c.bf.size THEN c
    ELSE LET src == c.bf.data
             v == Load(c.h, src, elm)
             c1 == IF Valid(c.h, src, elm) /\ c.h[src].slots[elm + 1] >= DefaultValue
                   THEN [c EXCEPT !.h[src].slots[elm + 1] = MovedFrom]
                   ELSE c
             c2 == PlacementNew(c1, dest, elm, v, "move")
         IN  MoveFrom(c2, dest, elm + 1)

\* a reallocation that destructs the old elements after releasing them
_realloc_DestructsLast(c, reserve, o) ==
    LET c1 == Allocate(c, reserve, o)
    IN  IF c1.ex THEN c1
        ELSE LET dest == c1.ret
                 c2 == MoveFrom(c1, dest, 0)
                 c3 == _destruct(_dealloc(c2))
             IN  [c3 EXCEPT !.ret = dest]

\* a reallocation that gives the old storage back before relocating
_realloc_ReleasesFirst(c, reserve, o) ==
    LET c1 == Allocate(c, reserve, o)
    IN  IF c1.ex THEN c1
        ELSE LET dest == c1.ret
                 c2 == _dealloc(_destruct(c1))
                 c3 == MoveFrom(c2, dest, 0)
             IN  [c3 EXCEPT !.ret = dest]

\* returns the new storage in .ret; the caller adopts it
_realloc(c, reserve, o) ==
    LET c1 == Allocate(c, reserve, o)
    IN  IF c1.ex THEN c1
        ELSE LET dest == c1.ret
                 c2 == MoveFrom(c1, dest, 0)
                 c3 == _dealloc(_destruct(c2))
             IN  [c3 EXCEPT !.ret = dest]

\* a reserve that adopts the new storage without recording its capacity
reserve_ForgetsCapacity(c, n, o) ==
    IF n > c.bf.reserved
    THEN LET c1 == _realloc(c, n, o)
         IN  IF c1.ex THEN c1
             ELSE [c1 EXCEPT !.bf.data = c1.ret]
    ELSE c

reserve(c, n, o) ==
    IF n > c.bf.reserved
    THEN LET c1 == _realloc(c, n, o)
         IN  IF c1.ex THEN c1
             ELSE [c1 EXCEPT !.bf.data = c1.ret, !.bf.reserved = n]
    ELSE c

\* for (elm = _size; elm < size; ++elm) new (_data + elm) ValueType();
RECURSIVE DefaultFrom(_, _, _)
DefaultFrom(c, elm, size) ==
    IF elm >= size THEN c
    ELSE DefaultFrom(PlacementNew(c, c.bf.data, elm, DefaultValue, "construct"),
                     elm + 1, size)

\* a resize that destructs the elements above the new size
resize_DestructsSurplus(c, size, o) ==
    LET c1 == reserve(c, size, o)
    IN  IF c1.ex THEN c1
        ELSE [DefaultFrom(DestructFrom(c1, size), c1.bf.size, size)
                 EXCEPT !.bf.size = size]

\* a resize that asks for one slot more than requested
resize_Padded(c, size, o) ==
    LET c1 == reserve(c, size + 1, o)
    IN  IF c1.ex THEN c1
        ELSE [DefaultFrom(c1, c1.bf.size, size) EXCEPT !.bf.size = size]

resize(c, size, o) ==
    LET c1 == reserve(c, size, o)
    IN  IF c1.ex THEN c1
        ELSE [DefaultFrom(c1, c1.bf.size, size) EXCEPT !.bf.size = size]

\* a push that never grows the storage
_grow_if_needed_Never(c, k, o) == c

\* k is the answer of GrowthPolicy()(_size)
_grow_if_needed(c, k, o) ==
    IF c.bf.size = c.bf.reserved
    THEN reserve(Log(c, Ev("grow", Null, c.bf.size, k)), k, o)
    ELSE c

\* new (_data + _size++) ValueType(element)
\* an insertion that constructs the element without counting it
_push_no_checks_KeepsSize(c, v) ==
    PlacementNew(c, c.bf.data, c.bf.size, v, "construct")

_push_no_checks(c, v) ==
    [PlacementNew(c, c.bf.data, c.bf.size, v, "construct")
        EXCEPT !.bf.size = @ + 1]

_emplace_no_checks(c, v) ==
    [PlacementNew(c, c.bf.data, c.bf.size, v, "construct")
        EXCEPT !.bf.size = @ + 1]

push(c, v, k, o) ==
    LET c1 == _grow_if_needed(c, k, o)
    IN  IF c1.ex THEN c1 ELSE _push_no_checks(c1, v)

emplace(c, v, k, o) ==
    LET c1 == _grow_if_needed(c, k, o)
    IN  IF c1.ex THEN c1 ELSE _emplace_no_checks(c1, v)

\* a clear() that also gives the storage back
\* a bounds check that lets index = _size through
operator_subscript_OffByOne(c, index, dbg) ==
    IF dbg /\ index > c.bf.size
    THEN [c EXCEPT !.ex = TRUE, !.err = "OutOfBounds"]
    ELSE LET r == c.bf.data
             c1 == Log(c, Ev("read", r, index, Load(c.h, r, index)))
         IN  IF Load(c.h, r, index) = Garbage THEN [c1 EXCEPT !.ub = TRUE] ELSE c1

\* operator[](size_type index), and the caller reading the element through
\* the reference it returns.  dbg: RDX_DEBUG is defined
operator_subscript(c, index, dbg) ==
    IF dbg /\ index >= c.bf.size
    THEN [c EXCEPT !.ex = TRUE, !.err = "OutOfBounds"]
    ELSE LET r == c.bf.data
             c1 == Log(c, Ev("read", r, index, Load(c.h, r, index)))
         IN  IF Load(c.h, r, index) = Garbage THEN [c1 EXCEPT !.ub = TRUE] ELSE c1

\* a clear() that also gives the storage back
clear_Releases(c) ==
    [_dealloc(_destruct([c EXCEPT !.bf.size = 0]))
        EXCEPT !.bf.data = Null, !.bf.reserved = 0]

clear(c) == _destruct([c EXCEPT !.bf.size = 0])

Destructor(c) == _dealloc(_destruct(c))

\* std::memcpy(_data, start, length): copies `length` BYTES; slot i of the
\* destination occupies bytes [i * w, (i + 1) * w)
RECURSIVE MemcpyFrom(_, _, _, _, _)
MemcpyFrom(c, start, i, bytes, w) ==
    IF i * w >= bytes THEN c
    ELSE LET v == IF (i + 1) * w <= bytes THEN start[i + 1] ELSE Garbage
         IN  MemcpyFrom(Store(c, c.bf.data, i, v), start, i + 1, bytes, w)

Memcpy(c, start, bytes, w) ==
    MemcpyFrom(Log(c, Ev("memcpy", c.bf.data, bytes, 0)), start, 0, bytes, w)

\* for (const auto& v : values) _push_no_checks(v);
RECURSIVE PushAll(_, _, _)
PushAll(c, values, k) ==
    IF k > Len(values) THEN c
    ELSE PushAll(_push_no_checks(c, values[k]), values, k + 1)

\* ---- the public operations, as whole steps of the program ----

Empty == [st |-> "alive", data |-> Null, reserved |-> 0, size |-> 0]

Alive(b) == bufs[b].st = "alive"

\* nothing runs after undefined behaviour; a run has at most budget operations
Running == ~ub /\ steps < budget

\* the caller's arrays and literal lists: 1, 2, 1, ... cut at every length
Sources == {[i \in 1 .. k |-> 2 - (i % 2)] : k \in 0 .. MaxCap}

\* the allocator is asked only when the request exceeds the capacity; the
\* model asks for at most MaxCap slots
MayReserve(bf, n) ==
    n > bf.reserved => n <= MaxCap

OutcomesFor(bf, n) == IF n > bf.reserved THEN Outcomes ELSE {"ok"}

Outcome(c) == IF c.ex THEN c.err ELSE IF c.ub THEN "UB" ELSE "ok"

\* A member function of object b ends in context c.  Undefined behaviour
\* either aborts the process at the fault or lets the execution run on with
\* the invalid writes lost; nothing is run after either.
Untracked == [only |-> FALSE, vals |-> <<>>]

\* the caller's record of what it inserted into an object it created empty
Pushed(b, op, arg, out) ==
    IF op = "Buffer()" THEN [only |-> TRUE, vals |-> <<>>]
    ELSE IF op = "operator[]" THEN pushed[b]
    ELSE IF op = "push" /\ pushed[b].only
    THEN IF out = "AllocationFailure" THEN pushed[b]
         ELSE [only |-> TRUE, vals |-> Append(pushed[b].vals, arg)]
    ELSE Untracked

\* the caller's count of the slots a clear() left behind and not yet refilled
Spare(b, op) ==
    IF op = "clear" THEN bufs[b].size
    ELSE IF op = "operator[]" THEN spare[b]
    ELSE IF op = "push" /\ spare[b] > 0 THEN spare[b] - 1
    ELSE 0

Finish(b, ctx, op, arg, src) ==
    \E c \in {ctx} :
        /\ pushed' = [pushed EXCEPT ![b] = Pushed(b, op, arg, Outcome(c))]
        /\ spare' = [spare EXCEPT ![b] = Spare(b, op)]
        /\ last' = [op |-> op, b |-> b, arg |-> arg, src |-> src, out |-> Outcome(c)]
        /\ trace' = c.t
        /\ ub' = c.ub
        /\ steps' = steps + 1
        /\ UNCHANGED <<policy, width, debug, budget>>
        /\ \/ /\ bufs' = [bufs EXCEPT ![b] = c.bf]
              /\ heap' = c.h
           \/ /\ c.ub
              /\ UNCHANGED <<bufs, heap>>

\* A constructor of object b ends in context c.  When the body raises after
\* the delegated Buffer() has completed, the destructor runs and no object
\* comes to exist.
FinishNew(b, c, op, arg, src) ==
    IF c.ex
    THEN Finish(b, [Destructor(c) EXCEPT !.bf = NoBuffer], op, arg, src)
    ELSE Finish(b, c, op, arg, src)

\* Buffer()
DefaultConstruct(b) ==
    /\ Running
    /\ bufs[b].st = "none"
    /\ FinishNew(b, Ctx(Empty, heap), "Buffer()", 0, <<>>)

\* Buffer(size_type size)
SizedConstruct(b, n) ==
    /\ Running
    /\ bufs[b].st = "none"
    /\ MayReserve(Empty, n)
    /\ \E o \in OutcomesFor(Empty, n) :
          FinishNew(b, resize(Ctx(Empty, heap), n, o), "Buffer(size)", n, <<>>)

\* Buffer(const ValueType* start, size_type length)
RangeConstruct(b, start) ==
    /\ Running
    /\ bufs[b].st = "none"
    /\ MayReserve(Empty, Len(start))
    /\ \E o \in OutcomesFor(Empty, Len(start)) :
          LET length == Len(start)
              c1 == reserve(Ctx(Empty, heap), length, o)
              c2 == IF c1.ex THEN c1
                    ELSE [Memcpy(c1, start, length, width) EXCEPT !.bf.size = length]
          IN  FinishNew(b, c2, "Buffer(start,length)", length, start)

\* Buffer(std::initializer_list<ValueType> values)
ListConstruct(b, values) ==
    /\ Running
    /\ bufs[b].st = "none"
    /\ MayReserve(Empty, Len(values))
    /\ \E o \in OutcomesFor(Empty, Len(values)) :
          LET c1 == reserve(Ctx(Empty, heap), Len(values), o)
              c2 == IF c1.ex THEN c1 ELSE PushAll(c1, values, 1)
          IN  FinishNew(b, c2, "Buffer(values)", Len(values), values)

\* the member initializers / assignments of the two move operations
TakeFields(bs, b, ref) ==
    [bs EXCEPT ![b] = [st |-> "alive", data |-> bs[ref].data,
                       reserved |-> bs[ref].reserved, size |-> bs[ref].size]]

\* a move that forgets ref._size = 0
ResetRef_KeepsSize(bs, ref) ==
    [bs EXCEPT ![ref] = [st |-> "alive", data |-> Null, reserved |-> 0,
                         size |-> bs[ref].size]]

ResetRef(bs, ref) ==
    [bs EXCEPT ![ref] = [st |-> "alive", data |-> Null, reserved |-> 0, size |-> 0]]

\* Buffer(Buffer&& ref)
MoveConstruct(b, ref) ==
    /\ Running
    /\ bufs[b].st = "none"
    /\ Alive(ref)
    /\ bufs' = ResetRef(TakeFields(bufs, b, ref), ref)
    /\ last' = [op |-> "Buffer(Buffer&&)", b |-> b, arg |-> ref, src |-> <<>>, out |-> "ok"]
    /\ trace' = <<>>
    /\ steps' = steps + 1
    /\ pushed' = [pushed EXCEPT ![b] = Untracked, ![ref] = Untracked]
    /\ spare' = [spare EXCEPT ![b] = 0, ![ref] = 0]
    /\ UNCHANGED <<heap, policy, width, ub, debug, budget>>

\* operator=(Buffer&& ref), ref possibly *this
MoveAssign(b, ref) ==
    /\ Running
    /\ Alive(b)
    /\ Alive(ref)
    /\ bufs' = ResetRef(TakeFields(bufs, b, ref), ref)
    /\ last' = [op |-> "operator=", b |-> b, arg |-> ref, src |-> <<>>, out |-> "ok"]
    /\ trace' = <<>>
    /\ steps' = steps + 1
    /\ pushed' = [pushed EXCEPT ![b] = Untracked, ![ref] = Untracked]
    /\ spare' = [spare EXCEPT ![b] = 0, ![ref] = 0]
    /\ UNCHANGED <<heap, policy, width, ub, debug, budget>>

\* what the growth policy may answer when push finds the buffer full
Answers(bf) ==
    IF bf.size = bf.reserved
    THEN GrowthPolicy(policy, bf.size)
    ELSE {0}

OutcomesGrow(bf) == IF bf.size = bf.reserved THEN Outcomes ELSE {"ok"}

\* push(const ValueType& element)
PushCopy(b, v) ==
    /\ Running
    /\ Alive(b)
    /\ \E k \in Answers(bufs[b]), o \in OutcomesGrow(bufs[b]) :
          Finish(b, push(Ctx(bufs[b], heap), v, k, o), "push", v, <<>>)

\* push(ValueType&& element)
PushMove(b, v) ==
    /\ Running
    /\ Alive(b)
    /\ \E k \in Answers(bufs[b]), o \in OutcomesGrow(bufs[b]) :
          Finish(b, push(Ctx(bufs[b], heap), v, k, o), "push", v, <<>>)

\* emplace(Args&&... args)
Emplace(b, v) ==
    /\ Running
    /\ Alive(b)
    /\ \E k \in Answers(bufs[b]), o \in OutcomesGrow(bufs[b]) :
          Finish(b, emplace(Ctx(bufs[b], heap), v, k, o), "push", v, <<>>)

\* clear()
Clear(b) ==
    /\ Running
    /\ Alive(b)
    /\ Finish(b, clear(Ctx(bufs[b], heap)), "clear", 0, <<>>)

\* ~Buffer()
Destroy(b) ==
    /\ Running
    /\ Alive(b)
    /\ Finish(b, [Destructor(Ctx(bufs[b], heap)) EXCEPT
                     !.bf = [st |-> "dead", data |-> Null, reserved |-> 0, size |-> 0]],
              "~Buffer", 0, <<>>)

\* ValueType& operator[](size_type index)
Index(b, index) ==
    /\ Running
    /\ Alive(b)
    /\ Finish(b, operator_subscript(Ctx(bufs[b], heap), index, debug),
              "operator[]", index, <<>>)

\* const ValueType& operator[](size_type index) const
IndexConst(b, index) ==
    /\ Running
    /\ Alive(b)
    /\ Finish(b, operator_subscript(Ctx(bufs[b], heap), index, debug),
              "operator[]", index, <<>>)

\* reserve(size_type reserve)
Reserve(b, n) ==
    /\ Running
    /\ Alive(b)
    /\ MayReserve(bufs[b], n)
    /\ \E o \in OutcomesFor(bufs[b], n) :
          Finish(b, reserve(Ctx(bufs[b], heap), n, o), "reserve", n, <<>>)

\* resize(size_type size)
Resize(b, n) ==
    /\ Running
    /\ Alive(b)
    /\ MayReserve(bufs[b], n)
    /\ \E o \in OutcomesFor(bufs[b], n) :
          Finish(b, resize(Ctx(bufs[b], heap), n, o), "resize", n, <<>>)

Init ==
    /\ bufs = [b \in Bufs |-> NoBuffer]
    /\ heap = <<>>
    /\ policy \in Policies
    /\ width \in Widths
    /\ last = [op |-> "start", b |-> 0, arg |-> 0, src |-> <<>>, out |-> "ok"]
    /\ trace = <<>>
    /\ ub = FALSE
    /\ steps = 0
    /\ pushed = [b \in Bufs |-> Untracked]
    /\ spare = [b \in Bufs |-> 0]
    /\ debug = FALSE
    /\ budget = MaxOps

Next ==
    \/ \E b \in Bufs : DefaultConstruct(b)
    \/ \E b \in Bufs, n \in 0 .. MaxCap : SizedConstruct(b, n)
    \/ \E b \in Bufs, start \in Sources : RangeConstruct(b, start)
    \/ \E b \in Bufs, values \in Sources : ListConstruct(b, values)
    \/ \E b \in Bufs, ref \in Bufs : MoveConstruct(b, ref)
    \/ \E b \in Bufs, ref \in Bufs : MoveAssign(b, ref)
    \/ \E b \in Bufs, v \in Values : PushCopy(b, v)
    \/ \E b \in Bufs, v \in Values : PushMove(b, v)
    \/ \E b \in Bufs, v \in Values : Emplace(b, v)
    \/ \E b \in Bufs : Clear(b)
    \/ \E b \in Bufs : Destroy(b)
    \/ \E b \in Bufs, n \in 0 .. MaxCap : Reserve(b, n)
    \/ \E b \in Bufs, n \in 0 .. MaxCap : Resize(b, n)
    \/ \E b \in Bufs, index \in 0 .. MaxCap : Index(b, index)
    \/ \E b \in Bufs, index \in 0 .. MaxCap : IndexConst(b, index)

Spec == Init /\ [][Next]_vars

\* the same program built with RDX_DEBUG defined
InitDebug ==
    /\ bufs = [b \in Bufs |-> NoBuffer]
    /\ heap = <<>>
    /\ policy \in Policies
    /\ width \in Widths
    /\ last = [op |-> "start", b |-> 0, arg |-> 0, src |-> <<>>, out |-> "ok"]
    /\ trace = <<>>
    /\ ub = FALSE
    /\ steps = 0
    /\ pushed = [b \in Bufs |-> Untracked]
    /\ spare = [b \in Bufs |-> 0]
    /\ debug = TRUE
    /\ budget = MaxOps

SpecDebug == InitDebug /\ [][Next]_vars

\* a program that instantiates Buffer with the policy "double, at least 4"
\* and only creates buffers and inserts into them
InitDouble ==
    /\ bufs = [b \in Bufs |-> NoBuffer]
    /\ heap = <<>>
    /\ policy = "double"
    /\ width \in Widths
    /\ last = [op |-> "start", b |-> 0, arg |-> 0, src |-> <<>>, out |-> "ok"]
    /\ trace = <<>>
    /\ ub = FALSE
    /\ steps = 0
    /\ pushed = [b \in Bufs |-> Untracked]
    /\ spare = [b \in Bufs |-> 0]
    /\ debug = FALSE
    /\ budget = MaxPushes + 1

NextDouble ==
    \/ \E b \in Bufs : DefaultConstruct(b)
    \/ \E b \in Bufs, v \in Values : PushCopy(b, v)
    \/ \E b \in Bufs, v \in Values : PushMove(b, v)
    \/ \E b \in Bufs, v \in Values : Emplace(b, v)

SpecDouble == InitDouble /\ [][NextDouble]_vars

\* a program that creates buffers from non-empty lists, grows and refills
\* them, hands them from object to object, and destroys them
InitMoves ==
    /\ bufs = [b \in Bufs |-> NoBuffer]
    /\ heap = <<>>
    /\ policy \in Policies
    /\ width \in Widths
    /\ last = [op |-> "start", b |-> 0, arg |-> 0, src |-> <<>>, out |-> "ok"]
    /\ trace = <<>>
    /\ ub = FALSE
    /\ steps = 0
    /\ pushed = [b \in Bufs |-> Untracked]
    /\ spare = [b \in Bufs |-> 0]
    /\ debug = FALSE
    /\ budget = MaxMoves

NextMoves ==
    \/ \E b \in Bufs, values \in Sources \ {<<>>} : ListConstruct(b, values)
    \/ \E b \in Bufs, ref \in Bufs : MoveConstruct(b, ref)
    \/ \E b \in Bufs, ref \in Bufs : MoveAssign(b, ref)
    \/ \E b \in Bufs, n \in 0 .. MaxCap : Reserve(b, n)
    \/ \E b \in Bufs, v \in Values : PushMove(b, v)
    \/ \E b \in Bufs : Clear(b)
    \/ \E b \in Bufs : Destroy(b)

SpecMoves == InitMoves /\ [][NextMoves]_vars

\* programs that instantiate Buffer with element types of every width and
\* build buffers from arrays
InitWidth ==
    /\ bufs = [b \in Bufs |-> NoBuffer]
    /\ heap = <<>>
    /\ policy \in Policies
    /\ width \in 1 .. MaxWidth
    /\ last = [op |-> "start", b |-> 0, arg |-> 0, src |-> <<>>, out |-> "ok"]
    /\ trace = <<>>
    /\ ub = FALSE
    /\ steps = 0
    /\ pushed = [b \in Bufs |-> Untracked]
    /\ spare = [b \in Bufs |-> 0]
    /\ debug = FALSE
    /\ budget = MaxOps

NextWidth ==
    \/ \E b \in Bufs, start \in Sources : RangeConstruct(b, start)
    \/ \E b \in Bufs, v \in Values : PushCopy(b, v)
    \/ \E b \in Bufs, ref \in Bufs : MoveConstruct(b, ref)
    \/ \E b \in Bufs : Destroy(b)

SpecWidth == InitWidth /\ [][NextWidth]_vars

\* ---- observations used by the properties ----

\* iterating [begin(), end()): the values in slots [0, _size) of _data
Elems(bs, h, b) == [i \in 1 .. bs[b].size |-> Load(h, bs[b].data, i - 1)]

\* the objects whose _data designates region r
Owners(bs, r) == {b \in Bufs : bs[b].st = "alive" /\ bs[b].data = r}

\* how often the last operation made call e on slot i of region r
Count(t, e, r, i) ==
    Cardinality({k \in 1 .. Len(t) : t[k].e = e /\ t[k].r = r /\ t[k].i = i})

Calls(t, e) == {k \in 1 .. Len(t) : t[k].e = e}

AllocFailed(t) ==
    \E k \in 1 .. Len(t) :
        \/ t[k].e = "allocate_throw"
        \/ t[k].e = "allocate" /\ t[k].r = Null

SingleOwner(bs, h) ==
    \A r \in 1 .. Len(h) : h[r].st = "live" => Cardinality(Owners(bs, r)) = 1

IsMove(l) == l.op \in {"Buffer(Buffer&&)", "operator="} /\ l.b # l.arg

\* the step is a call that came back to its caller: it raised nothing and
\* the process was not stopped at a fault
Returned ==
    /\ last'.out # "AllocationFailure"
    /\ ~(ub' /\ bufs' = bufs /\ heap' = heap)

\* ---- the claims ----

\* C1: every storage region that is allocated and not yet released is owned
\* by exactly one Buffer.  Stated as preserved by every operation; the
\* assignment of an object to itself is left aside.
C1_ExclusiveOwnership ==
    [][(SingleOwner(bufs, heap) /\ ~(last'.op = "operator=" /\ last'.b = last'.arg))
         => SingleOwner(bufs', heap')]_vars

\* C2: a move (construction or assignment) between distinct objects gives the
\* destination exactly the source's storage, size, capacity and elements and
\* leaves the source empty; destroying the source next destructs no element
\* and releases no region.
C2_MoveTransfers ==
    [][/\ IsMove(last') =>
            /\ bufs'[last'.b].data = bufs[last'.arg].data
            /\ bufs'[last'.b].size = bufs[last'.arg].size
            /\ bufs'[last'.b].reserved = bufs[last'.arg].reserved
            /\ Elems(bufs', heap', last'.b) = Elems(bufs, heap, last'.arg)
            /\ bufs'[last'.arg] = Empty
       /\ (IsMove(last) /\ last'.op = "~Buffer" /\ last'.b = last.arg) =>
            /\ Calls(trace', "destruct") = {}
            /\ \A r \in 1 .. Len(heap) : heap'[r].st = heap[r].st
      ]_vars

\* a move assignment has carried two elements from one object to another
C2_Witness ==
    /\ last.op = "operator="
    /\ last.b # last.arg
    /\ bufs[last.b].size = 2
    /\ bufs[last.b].data # Null
    /\ bufs[last.arg] = Empty

\* C3: clear() with size s destructs each element in slots [0, s) exactly
\* once, sets size to 0 and keeps the storage and the capacity.
C3_ClearDestructsAll ==
    [][last'.op = "clear" =>
          /\ \A i \in 0 .. bufs[last'.b].size - 1 :
                Count(trace', "destruct", bufs[last'.b].data, i) = 1
          /\ bufs'[last'.b].size = 0
          /\ bufs'[last'.b].data = bufs[last'.b].data
          /\ bufs'[last'.b].reserved = bufs[last'.b].reserved
          /\ Calls(trace', "deallocate") = {}
      ]_vars

\* C4: when the allocator fails in reserve(n), by raising or by returning
\* null, the failure reaches the caller and the Buffer and its storage are
\* exactly as before the call.
C4_ReserveFailureKeepsState ==
    [][(last'.op = "reserve" /\ AllocFailed(trace')) =>
          /\ last'.out = "AllocationFailure"
          /\ bufs' = bufs
          /\ heap' = heap
      ]_vars

\* slots [0, size) hold live constructed elements, slots [size, capacity) none
Watermark(bs, h) ==
    \A b \in Bufs : bs[b].st = "alive" =>
        \A i \in 0 .. bs[b].reserved - 1 :
            /\ Valid(h, bs[b].data, i)
            /\ IF i < bs[b].size
               THEN h[bs[b].data].slots[i + 1] >= DefaultValue
               ELSE h[bs[b].data].slots[i + 1] = Uninit

\* C5: at every operation boundary slots [0, size) hold live constructed
\* elements and slots [size, capacity) hold none.  Stated as preserved by
\* every operation whose storage request, if it made one, was satisfied.
C5_Watermark ==
    [][(Watermark(bufs, heap) /\ ~AllocFailed(trace')) => Watermark(bufs', heap')]_vars

\* C6: capacity >= size in every reachable state, whatever the growth
\* policy answers above the current size.
C6_CapacityAtLeastSize ==
    \A b \in Bufs : Alive(b) => bufs[b].reserved >= bufs[b].size

\* a push has filled the storage it has just grown to its capacity
C6_Witness ==
    /\ last.op = "push"
    /\ last.out = "ok"
    /\ Calls(trace, "grow") # {}
    /\ bufs[last.b].size = bufs[last.b].reserved
    /\ bufs[last.b].size = 2

\* C7: the storage pointer is null if and only if capacity = 0, in every
\* state the program reaches without undefined behaviour.
C7_NullIffNoCapacity ==
    \A b \in Bufs : (Alive(b) /\ ~ub) =>
        ((bufs[b].data = Null) <=> (bufs[b].reserved = 0))

\* C8: after N push/emplace calls on a buffer created empty, size = N and
\* iterating [0, size) yields the inserted values in insertion order.
C8_PushOrder ==
    \A b \in Bufs : (Alive(b) /\ pushed[b].only) =>
        /\ bufs[b].size = Len(pushed[b].vals)
        /\ Elems(bufs, heap, b) = pushed[b].vals

\* C9: reserve(n) never decreases capacity, leaves size and the element
\* sequence unchanged, and does nothing at all when n <= capacity.
C9_ReserveFrame ==
    [][last'.op = "reserve" =>
          /\ bufs'[last'.b].reserved >= bufs[last'.b].reserved
          /\ bufs'[last'.b].size = bufs[last'.b].size
          /\ Elems(bufs', heap', last'.b) = Elems(bufs, heap, last'.b)
          /\ last'.arg <= bufs[last'.b].reserved =>
                (bufs' = bufs /\ heap' = heap /\ trace' = <<>>)
      ]_vars

\* C10: resize(n) with n > size = s leaves elements [0, s) unchanged,
\* default-constructs exactly the slots [s, n), and ends with size = n and
\* capacity >= n.  (A call that raised AllocationFailure has not resized.)
C10_ResizeGrows ==
    [][(/\ last'.op = "resize"
        /\ last'.arg > bufs[last'.b].size
        /\ last'.out # "AllocationFailure") =>
          /\ bufs'[last'.b].size = last'.arg
          /\ bufs'[last'.b].reserved >= last'.arg
          /\ \A i \in 1 .. bufs[last'.b].size :
                Elems(bufs', heap', last'.b)[i] = Elems(bufs, heap, last'.b)[i]
          /\ \A i \in bufs[last'.b].size + 1 .. last'.arg :
                Elems(bufs', heap', last'.b)[i] = DefaultValue
          /\ \A k \in Calls(trace', "construct") :
                /\ trace'[k].i >= bufs[last'.b].size
                /\ trace'[k].i < last'.arg
          /\ \A i \in bufs[last'.b].size .. last'.arg - 1 :
                Count(trace', "construct", bufs'[last'.b].data, i) = 1
      ]_vars

\* C11: clear() leaves the capacity and the storage pointer unchanged, and
\* each of the first s insertions that follow a clear() of a buffer of size s
\* allocates nothing, relocates nothing and does not ask the growth policy.
C11_ClearKeepsStorage ==
    [][/\ last'.op = "clear" =>
            /\ bufs'[last'.b].reserved = bufs[last'.b].reserved
            /\ bufs'[last'.b].data = bufs[last'.b].data
       /\ (last'.op = "push" /\ spare[last'.b] > 0) =>
            /\ Calls(trace', "grow") = {}
            /\ Calls(trace', "allocate") = {}
            /\ Calls(trace', "allocate_throw") = {}
            /\ Calls(trace', "move") = {}
            /\ Calls(trace', "deallocate") = {}
            /\ bufs'[last'.b].reserved = bufs[last'.b].reserved
            /\ bufs'[last'.b].data = bufs[last'.b].data
      ]_vars

\* an insertion has refilled one of the two slots a clear() left behind
C11_Witness ==
    /\ last.op = "push"
    /\ spare[last.b] = 1
    /\ bufs[last.b].size = 1
    /\ bufs[last.b].reserved = 2
    /\ trace = <<Ev("construct", bufs[last.b].data, 0, last.arg)>>

\* C12: a push/emplace called with size = capacity = K (K = 0 included) asks
\* the growth policy exactly once, with argument K, and when the call returns
\* the capacity is the value the policy answered.
C12_GrowthOnFull ==
    [][(last'.op = "push" /\ bufs[last'.b].size = bufs[last'.b].reserved) =>
          /\ Cardinality(Calls(trace', "grow")) = 1
          /\ \A k \in Calls(trace', "grow") :
                /\ trace'[k].i = bufs[last'.b].size
                /\ Returned => bufs'[last'.b].reserved = trace'[k].v
      ]_vars

\* a push onto a full buffer of one element has grown it to capacity 2
C12_Witness ==
    /\ last.op = "push"
    /\ last.out = "ok"
    /\ trace[1] = Ev("grow", Null, 1, 2)
    /\ bufs[last.b].reserved = 2
    /\ bufs[last.b].size = 2

\* C13: with the policy max(4, 2 * s), a buffer created empty has, after its
\* n-th insertion (n = 0 .. 5), size n and capacity 0, 4, 4, 4, 4, 8.
C13_DoubleCapacities ==
    \A b \in Bufs :
        (/\ Alive(b)
         /\ ~ub
         /\ policy = "double"
         /\ pushed[b].only
         /\ Len(pushed[b].vals) <= 5) =>
            /\ bufs[b].size = Len(pushed[b].vals)
            /\ bufs[b].reserved = <<0, 4, 4, 4, 4, 8>>[Len(pushed[b].vals) + 1]

\* the fifth insertion has grown the buffer from capacity 4 to capacity 8
C13_Witness ==
    /\ ~ub
    /\ policy = "double"
    /\ \E b \in Bufs :
          /\ Alive(b)
          /\ pushed[b].only
          /\ Len(pushed[b].vals) = 5
          /\ bufs[b].size = 5
          /\ bufs[b].reserved = 8
          /\ last.op = "push"
          /\ last.b = b
          /\ Calls(trace, "grow") # {}

\* C14: for every element width w >= 1, Buffer(start, length) whose storage
\* request was satisfied has size = length, capacity >= length, and its
\* length elements equal the source's, byte for byte.
C14_RangeCopiesElements ==
    [][(last'.op = "Buffer(start,length)" /\ ~AllocFailed(trace')) =>
          /\ bufs'[last'.b].size = last'.arg
          /\ bufs'[last'.b].reserved >= last'.arg
          /\ Elems(bufs', heap', last'.b) = last'.src
      ]_vars

\* C15: in a debug build, operator[] (mutable or const) with index >= size
\* (index = size included) raises OutOfBounds and leaves size, capacity,
\* storage and elements as they were; with index < size it yields the live
\* element at that position.
C15_DebugBoundsCheck ==
    [][(debug /\ last'.op = "operator[]") =>
          /\ bufs' = bufs
          /\ heap' = heap
          /\ IF last'.arg >= bufs[last'.b].size
             THEN /\ last'.out = "OutOfBounds"
                  /\ trace' = <<>>
             ELSE /\ last'.out = "ok"
                  /\ Valid(heap, bufs[last'.b].data, last'.arg)
                  /\ heap[bufs[last'.b].data].slots[last'.arg + 1] >= DefaultValue
                  /\ trace' = <<Ev("read", bufs[last'.b].data, last'.arg,
                                   heap[bufs[last'.b].data].slots[last'.arg + 1])>>
      ]_vars

\* a debug build has refused index = size on a buffer holding one element
C15_Witness ==
    /\ debug
    /\ last.op = "operator[]"
    /\ last.out = "OutOfBounds"
    /\ bufs[last.b].size = 1
    /\ last.arg = 1
    /\ bufs[last.b].reserved = 2

\* the slots of region r that hold an object
LiveSlots(h, r) ==
    IF r \in 1 .. Len(h) /\ h[r].st = "live"
    THEN {i \in 0 .. h[r].cap - 1 : h[r].slots[i + 1] # Uninit}
    ELSE {}

\* C16: ~Buffer() destructs every live element of the buffer exactly once
\* and releases its storage exactly once; on a default-constructed or
\* moved-from buffer it destructs nothing and releases no region.
C16_DestroyReleasesAll ==
    [][last'.op = "~Buffer" =>
          /\ \A i \in LiveSlots(heap, bufs[last'.b].data) :
                Count(trace', "destruct", bufs[last'.b].data, i) = 1
          /\ \A k \in Calls(trace', "destruct") :
                /\ trace'[k].r = bufs[last'.b].data
                /\ trace'[k].i \in LiveSlots(heap, bufs[last'.b].data)
                /\ Count(trace', "destruct", trace'[k].r, trace'[k].i) = 1
          /\ bufs[last'.b].data # Null =>
                /\ Count(trace', "deallocate", bufs[last'.b].data, 0) = 1
                /\ heap'[bufs[last'.b].data].st = "released"
                /\ heap'[bufs[last'.b].data].frees = 1
          /\ bufs[last'.b] = Empty =>
                /\ Calls(trace', "destruct") = {}
                /\ \A r \in 1 .. Len(heap) : heap'[r] = heap[r]
      ]_vars

\* C17: the growth policy is asked only by push/emplace, and only when
\* size = capacity: never by reserve, resize, clear, a constructor, or an
\* insertion with size < capacity.  reserve(n) and resize(n) with
\* n > capacity that come back to the caller leave the capacity at exactly n.
C17_PolicyOnlyOnFullPush ==
    [][/\ Calls(trace', "grow") # {} =>
            /\ last'.op = "push"
            /\ bufs[last'.b].size = bufs[last'.b].reserved
       /\ (/\ last'.op \in {"reserve", "resize"}
           /\ last'.arg > bufs[last'.b].reserved
           /\ Returned) =>
            bufs'[last'.b].reserved = last'.arg
      ]_vars

\* a resize(2) of a buffer of capacity 1 has relocated its element into
\* storage of exactly 2 slots without asking the policy
C17_Witness ==
    /\ last.op = "resize"
    /\ last.out = "ok"
    /\ last.arg = 2
    /\ Calls(trace, "grow") = {}
    /\ Calls(trace, "move") # {}
    /\ bufs[last.b].reserved = 2
    /\ bufs[last.b].size = 2

\* the position in t of the only call e, 0 when there is none or several
At(t, e) ==
    IF Cardinality(Calls(t, e)) = 1 THEN CHOOSE k \in Calls(t, e) : TRUE ELSE 0

\* C18: a push/emplace that grows (the allocator having supplied storage)
\* makes its calls in this order: ask the policy, allocate the new storage,
\* move-construct each old element into the same index of the new storage,
\* destruct the old elements, release the old storage, and only then
\* construct the new element in slot `size` of the adopted storage.  The
\* relocation covers exactly the old elements, and the old storage is not
\* released before all of them are relocated.
C18_GrowingPushOrder ==
    [][(/\ last'.op = "push"
        /\ bufs[last'.b].size = bufs[last'.b].reserved
        /\ ~AllocFailed(trace')) =>
          LET old == bufs[last'.b].data
              s == bufs[last'.b].size
              t == trace'
              a == At(t, "allocate")
              d == At(t, "deallocate")
              c == At(t, "construct")
          IN  /\ a > 0 /\ d > 0 /\ c > 0
              /\ t[1].e = "grow"
              /\ a = 2
              /\ t[a].r # old
              /\ \A i \in 0 .. s - 1 :
                    /\ t[a + 1 + i] = Ev("move", t[a].r, i, Elems(bufs, heap, last'.b)[i + 1])
                    /\ t[a + s + 1 + i].e = "destruct"
                    /\ t[a + s + 1 + i].r = old
                    /\ t[a + s + 1 + i].i = i
              /\ Cardinality(Calls(t, "move")) = s
              /\ Cardinality(Calls(t, "destruct")) = s
              /\ d = a + 2 * s + 1
              /\ t[d].r = old
              /\ c = d + 1
              /\ Len(t) = c
              /\ t[c] = Ev("construct", t[a].r, s, last'.arg)
              /\ bufs'[last'.b].data = t[a].r
              /\ bufs'[last'.b].reserved = t[1].v
              /\ bufs'[last'.b].size = s + 1
      ]_vars

\* a push onto a full buffer of one element has relocated it and then
\* constructed the new element behind it
C18_Witness ==
    /\ last.op = "push"
    /\ last.out = "ok"
    /\ Len(trace) = 6
    /\ trace[1].e = "grow"
    /\ trace[2].e = "allocate"
    /\ trace[3].e = "move"
    /\ trace[4].e = "destruct"
    /\ trace[5].e = "deallocate"
    /\ trace[5].r # Null
    /\ trace[6].e = "construct"
    /\ trace[6].i = 1

\* C19: resize(n) with n < size sets size to n and does nothing else: the
\* elements [n, old size) are not destructed, nothing is allocated or
\* released, and capacity, storage pointer and elements [0, n) are unchanged.
C19_ResizeShrinks ==
    [][(last'.op = "resize" /\ last'.arg < bufs[last'.b].size) =>
          /\ last'.out = "ok"
          /\ bufs'[last'.b].size = last'.arg
          /\ bufs'[last'.b].reserved = bufs[last'.b].reserved
          /\ bufs'[last'.b].data = bufs[last'.b].data
          /\ heap' = heap
          /\ trace' = <<>>
          /\ \A i \in 1 .. last'.arg :
                Elems(bufs', heap', last'.b)[i] = Elems(bufs, heap, last'.b)[i]
      ]_vars

\* resize(1) has cut a buffer of two elements and left the second in place
C19_Witness ==
    /\ last.op = "resize"
    /\ last.arg = 1
    /\ trace = <<>>
    /\ bufs[last.b].size = 1
    /\ bufs[last.b].reserved = 2
    /\ Valid(heap, bufs[last.b].data, 1)
    /\ heap[bufs[last.b].data].slots[2] >= DefaultValue

\* C20: whatever the operations performed on the Buffers (growth by reserve,
\* move construction, move assignment, destruction of source and
\* destination), no region is passed to deallocate more than once, and no
\* destructor call reaches a slot that holds no element, be it because the
\* element was destructed before or because its region was released.
C20_NoDoubleRelease ==
    /\ \A r \in 1 .. Len(heap) : heap[r].frees <= 1
    /\ \A k \in Calls(trace, "deallocate") :
          trace[k].r # Null => Count(trace, "deallocate", trace[k].r, 0) = 1
    /\ \A k \in Calls(trace, "destruct") :
          /\ trace[k].v # Uninit
          /\ trace[k].v # Garbage
          /\ Count(trace, "destruct", trace[k].r, trace[k].i) = 1

\* both objects of a run that allocated a single region have been destroyed,
\* the source of the move first and the destination, with the elements, last;
\* the region was released once
C20_Witness ==
    /\ budget = MaxMoves
    /\ last.op = "~Buffer"
    /\ last.out = "ok"
    /\ \A b \in Bufs : bufs[b].st = "dead"
    /\ Calls(trace, "destruct") # {}
    /\ Len(heap) = 1
    /\ heap[1].frees = 1

====
